---- MODULE Spec2Model ----
(***************************************************************************)
(* The ETL notebook project.ipynb of data-modeling-with-cassandra as a     *)
(* state machine: one run of the notebook, cell after cell.                *)
(*   1. extract: walk event_data, read the csv files, write                *)
(*      event_datafile_new.csv;                                            *)
(*   2. connect, create the keyspace and the three tables, load them;      *)
(*   3. the three SELECTs, the DROP TABLEs, shutdown.                      *)
(* A csv cell is a string; a csv record is a sequence of cells as they     *)
(* stand on disk (quoted or not); Python's 0-based row[i] is At(row, i).   *)
(***************************************************************************)
EXTENDS Integers, Sequences, FiniteSets, TLC

VARIABLES
    pc,                   \* the cell (and the place in it) that runs next;
                          \* "read_lines", "insert_lines": inside the `with` block
    event_data,           \* the directory tree, in os.walk order
    wk,                   \* the os.walk iteration that runs next
    file_path_list,       \* Python variable ([bound, value])
    fi,                   \* position of the loop `for f in file_path_list`
    li,                   \* position of csvreader in the file it reads
    full_data_rows_list,  \* Python variable
    wi,                   \* position of the loop `for row in full_data_rows_list`
    disk_new,             \* content of event_datafile_new.csv ([exists, lines])
    open_files,           \* the file handles that are open
    cluster,              \* "none", "up", "shutdown"
    session,              \* [state, keyspace]
    keyspaces,            \* keyspaces of the database
    db,                   \* tables of keyspace sparkify: name -> schema, rows
    tix,                  \* which of the three tables is created / loaded / dropped
    rows,                 \* Python variable `rows` ([bound, value]): the rows the
                          \* ResultSet has still to give
    stmts,                \* the statements handed to session.execute, in order
    stdout,               \* what the cells printed
    faults                \* database faults met so far

vars == <<pc, event_data, wk, file_path_list, fi, li, full_data_rows_list, wi,
          disk_new, open_files, cluster, session, keyspaces, db, tix, rows,
          stmts, stdout, faults>>

---------------------------------------------------------------------------
(* Bounds of the model *)

\* data rows in all the files of event_data together
MaxRows == 2
\* files in event_data
MaxFiles == 2
\* directories of the tree (event_data itself and its sub-directories)
MaxDirs == 2
\* database statements that fail for a reason outside the program
MaxFaults == 1

---------------------------------------------------------------------------
(* Python values *)

\* a path: [kind, dir, idx], the idx-th file of directory dir (directory 0 is
\* the working directory); 'event_datafile_new.csv' is its only file
new_datafile == [kind |-> "file", dir |-> 0, idx |-> 1]

\* open(path, mode): one more handle is open
open(handles, path, mode) == handles \cup {[path |-> path, mode |-> mode]}

\* the end of a `with open(path) as f` block closes f
closeNothing(handles, path) == handles

close(handles, path) == {h \in handles : h.path # path}

\* row[i], 0-based
At(row, i) == row[i + 1]

\* next(csvreader): the reader moves past one record
nextTwo(pos) == pos + 2

next(pos) == pos + 1

\* int(s): the literals that occur in the data; any other string raises
\* ValueError ("04" and "4" are the same int)
IntLiteral ==
    [s \in {"0", "1", "2", "3", "4", "04", "10", "29", "182", "338"} |->
        CASE s = "0" -> 0 [] s = "1" -> 1 [] s = "2" -> 2 [] s = "3" -> 3 [] s = "4" -> 4
          [] s = "04" -> 4 [] s = "10" -> 10 [] s = "29" -> 29
          [] s = "182" -> 182 [] s = "338" -> 338]

IsInt(s) == s \in DOMAIN IntLiteral
int(s) == IntLiteral[s]

\* float(s): a double is kept as a fixed-point number of ten-thousandths
FloatLiteral ==
    [s \in {"495.3073", "411.6371", "333.76608", "208"} |->
        CASE s = "495.3073" -> 4953073 [] s = "411.6371" -> 4116371
          [] s = "333.76608" -> 3337661 [] s = "208" -> 2080000]

IsFloat(s) == s \in DOMAIN FloatLiteral
float(s) == FloatLiteral[s]

---------------------------------------------------------------------------
(* csv *)

\* csv.reader: a record on disk -> list of strings (quotes removed)
CsvRead(record) == [i \in 1..Len(record) |-> record[i].text]

\* csv.writer with dialect myDialect (QUOTE_ALL): every cell is quoted
CsvWrite(fields) == [i \in 1..Len(fields) |-> [quoted |-> TRUE, text |-> fields[i]]]

\* a record of an input file as the app's log writer left it
Plain(fields) == [i \in 1..Len(fields) |-> [quoted |-> FALSE, text |-> fields[i]]]

\* writer.writerow([...]) of the cell that writes the new file
NewHeader == <<"artist", "firstName", "gender", "itemInSession", "lastName", "length",
               "level", "location", "sessionId", "song", "userId">>

\* the tuple written for a row of full_data_rows_list
ProjectSongFirst(row) ==
    <<At(row, 0), At(row, 2), At(row, 3), At(row, 4), At(row, 5), At(row, 6), At(row, 7),
      At(row, 8), At(row, 13), At(row, 12), At(row, 16)>>

Project(row) ==
    <<At(row, 0), At(row, 2), At(row, 3), At(row, 4), At(row, 5), At(row, 6), At(row, 7),
      At(row, 8), At(row, 12), At(row, 13), At(row, 16)>>

\* `if (row[0] == ''): continue`
Skipped(row) == At(row, 0) = ""

---------------------------------------------------------------------------
(* The event log: rows of 17 columns, of which the notebook reads           *)
(* 0 artist, 2 firstName, 3 gender, 4 itemInSession, 5 lastName, 6 length, *)
(* 7 level, 8 location, 12 sessionId, 13 song, 16 userId                   *)

InputHeader ==
    <<"artist", "c1", "firstName", "gender", "itemInSession", "lastName", "length",
      "level", "location", "c9", "c10", "c11", "sessionId", "song", "c14", "c15", "userId">>

Event(artist, firstName, lastName, itemInSession, length, sessionId, song, userId) ==
    <<artist, "v1", firstName, "F", itemInSession, lastName, length,
      "free", "loc", "v9", "v10", "v11", sessionId, song, "v14", "v15", userId>>

Events ==
    { Event("Three Drives", "Sylvie", "Cruz", "1", "411.6371", "182",
            "All Hands Against His Own", "10"),
      Event("Down To The Bone", "Sylvie", "Cruz", "0", "333.76608", "182",
            "Keep On Keepin' On", "10"),
      \* user 10 under another last name in a later session
      Event("Faithless", "Sylvie", "Cruz-Reyes", "4", "495.3073", "338",
            "All Hands Against His Own", "10"),
      Event("The Black Keys", "Jacqueline", "Lynch", "04", "208", "338",
            "All Hands Against His Own", "29"),
      Event("", "Sylvie", "Cruz", "2", "", "182", "", "10"),
      \* an event whose length is missing: float('') raises ValueError
      Event("Mr Oizo", "Sylvie", "Cruz", "3", "", "182", "Flat Beat", "10") }

\* sequences of at most n events
RowSeqs(n) == UNION {[1..k -> Events] : k \in 0..n}

NonDecreasing(f) == \A i, j \in DOMAIN f : i <= j => f[i] <= f[j]

\* The tree in os.walk order (top-down): directory 1 is event_data, the others
\* are its sub-directories. rs: the data rows; fileOf: the file of each row;
\* dirOf: the directory of each file. Every file starts with the header line.
FileLines(rs, fileOf, f) ==
    <<Plain(InputHeader)>> \o
        [i \in 1..Cardinality({j \in DOMAIN rs : fileOf[j] = f}) |->
            Plain(rs[CHOOSE j \in DOMAIN rs :
                       /\ fileOf[j] = f
                       /\ Cardinality({m \in 1..j : fileOf[m] = f}) = i])]

Tree(nd, nf, rs, fileOf, dirOf) ==
    [d \in 1..nd |->
        [dirs  |-> IF d = 1 THEN [k \in 1..(nd - 1) |-> k + 1] ELSE <<>>,
         files |-> [i \in 1..Cardinality({f \in 1..nf : dirOf[f] = d}) |->
                       FileLines(rs, fileOf,
                           CHOOSE f \in 1..nf :
                               /\ dirOf[f] = d
                               /\ Cardinality({g \in 1..f : dirOf[g] = d}) = i)]]]

---------------------------------------------------------------------------
(* State after the imports: nothing bound, nothing open, no table in the   *)
(* database; the keyspace is there when the notebook has run before        *)

\* the trees of at most maxDirs directories
Layout(maxDirs) ==
    \E nd \in 0..maxDirs, nf \in 0..MaxFiles, rs \in RowSeqs(MaxRows) :
        \E fileOf \in [DOMAIN rs -> 1..nf], dirOf \in [1..nf -> 1..nd] :
            /\ NonDecreasing(fileOf)
            /\ rs # <<>> => \A f \in 1..nf : \E j \in DOMAIN rs : fileOf[j] = f
            /\ NonDecreasing(dirOf)
            /\ event_data = Tree(nd, nf, rs, fileOf, dirOf)

Start(before) ==
    /\ pc = "walk"
    /\ wk = 1
    /\ file_path_list = [bound |-> FALSE, value |-> <<>>]
    /\ fi = 1
    /\ li = 1
    /\ full_data_rows_list = <<>>
    /\ wi = 1
    /\ disk_new = [exists |-> FALSE, lines |-> <<>>]
    /\ open_files = {}
    /\ cluster = "none"
    /\ session = [state |-> "none", keyspace |-> ""]
    /\ keyspaces \in before
    /\ db = <<>>
    /\ tix = 1
    /\ rows = [bound |-> FALSE, value |-> <<>>]
    /\ stmts = <<>>
    /\ stdout = <<>>
    /\ faults = 0

\* event_data holds its files itself (the layout of the repository), or is missing
Init == Layout(1) /\ Start({{}, {"sparkify"}})

\* event_data may have sub-directories (the database plays no part in the csv cells)
InitTree == Layout(MaxDirs) /\ Start({{}})

\* an exception no cell catches: the run stops; a `with` block closes its file
AbortCaught(what) ==
    /\ pc' = IF pc = "insert_lines" THEN "query" ELSE "aborted"
    /\ open_files' = {}
    /\ stdout' = Append(stdout, [kind |-> "traceback", text |-> what])

Abort(what) ==
    /\ pc' = "aborted"
    /\ open_files' = {}
    /\ stdout' = Append(stdout, [kind |-> "traceback", text |-> what])

dbvars == <<cluster, session, keyspaces, db, tix, rows, stmts, faults>>

---------------------------------------------------------------------------
(* Cell: create the list of file paths *)

\* glob.glob(os.path.join(root, '*')): the files and the sub-directories of root
Glob(d) ==
    [i \in 1..Len(event_data[d].files) |-> [kind |-> "file", dir |-> d, idx |-> i]] \o
    [i \in 1..Len(event_data[d].dirs) |->
        [kind |-> "dir", dir |-> event_data[d].dirs[i], idx |-> 0]]

\* one iteration of `for root, dirs, files in os.walk(filepath)`
WalkStep ==
    /\ pc = "walk"
    /\ wk <= Len(event_data)
    /\ file_path_list' = [bound |-> TRUE, value |-> Glob(wk)]
    /\ wk' = wk + 1
    /\ UNCHANGED <<pc, event_data, fi, li, full_data_rows_list, wi, disk_new,
                   open_files, stdout>>
    /\ UNCHANGED dbvars

WalkEnd ==
    /\ pc = "walk"
    /\ wk > Len(event_data)
    /\ pc' = "read"
    /\ UNCHANGED <<event_data, wk, file_path_list, fi, li, full_data_rows_list, wi,
                   disk_new, open_files, stdout>>
    /\ UNCHANGED dbvars

---------------------------------------------------------------------------
(* Cell: read the files, write event_datafile_new.csv *)

Lines(path) == event_data[path.dir].files[path.idx]

\* `with open(f, 'r', ...) as csvfile: csvreader = csv.reader(csvfile); next(csvreader)`
ReadOpen ==
    /\ pc = "read"
    /\ IF ~file_path_list.bound
       THEN /\ Abort("NameError: file_path_list")
            /\ UNCHANGED <<fi, li>>
       ELSE /\ fi <= Len(file_path_list.value)
            /\ LET f == file_path_list.value[fi] IN
               IF f.kind = "dir"
               THEN /\ Abort("IsADirectoryError")
                    /\ UNCHANGED <<fi, li>>
               ELSE IF Len(Lines(f)) = 0
               THEN /\ Abort("StopIteration")
                    /\ UNCHANGED <<fi, li>>
               ELSE /\ open_files' = open(open_files, f, "r")
                    /\ li' = next(1)
                    /\ pc' = "read_lines"
                    /\ UNCHANGED <<fi, stdout>>
    /\ UNCHANGED <<event_data, wk, file_path_list, full_data_rows_list, wi, disk_new>>
    /\ UNCHANGED dbvars

\* `for line in csvreader: full_data_rows_list.append(line)`
ReadLine ==
    /\ pc = "read_lines"
    /\ li <= Len(Lines(file_path_list.value[fi]))
    /\ full_data_rows_list' =
           Append(full_data_rows_list, CsvRead(Lines(file_path_list.value[fi])[li]))
    /\ li' = next(li)
    /\ UNCHANGED <<pc, event_data, wk, file_path_list, fi, wi, disk_new, open_files, stdout>>
    /\ UNCHANGED dbvars

\* the end of the `with` block: the file is closed, the next file is taken
ReadClose ==
    /\ pc = "read_lines"
    /\ li > Len(Lines(file_path_list.value[fi]))
    /\ open_files' = close(open_files, file_path_list.value[fi])
    /\ fi' = fi + 1
    /\ pc' = "read"
    /\ UNCHANGED <<event_data, wk, file_path_list, li, full_data_rows_list, wi,
                   disk_new, stdout>>
    /\ UNCHANGED dbvars

\* after the loop: print the total, open the new file for writing, write the header
WriteOpen ==
    /\ pc = "read"
    /\ file_path_list.bound
    /\ fi > Len(file_path_list.value)
    /\ stdout' = Append(stdout, [kind |-> "total rows", n |-> Len(full_data_rows_list)])
    /\ open_files' = open(open_files, new_datafile, "w")
    /\ disk_new' = [exists |-> TRUE, lines |-> <<CsvWrite(NewHeader)>>]
    /\ wi' = 1
    /\ pc' = "write"
    /\ UNCHANGED <<event_data, wk, file_path_list, fi, li, full_data_rows_list>>
    /\ UNCHANGED dbvars

\* one iteration of `for row in full_data_rows_list`
WriteRow ==
    /\ pc = "write"
    /\ wi <= Len(full_data_rows_list)
    /\ LET row == full_data_rows_list[wi] IN
         disk_new' = IF Skipped(row)
                     THEN disk_new
                     ELSE [disk_new EXCEPT !.lines = Append(@, CsvWrite(Project(row)))]
    /\ wi' = wi + 1
    /\ UNCHANGED <<pc, event_data, wk, file_path_list, fi, li, full_data_rows_list,
                   open_files, stdout>>
    /\ UNCHANGED dbvars

\* the end of the `with` block: the new file is closed
WriteClose ==
    /\ pc = "write"
    /\ wi > Len(full_data_rows_list)
    /\ open_files' = close(open_files, new_datafile)
    /\ pc' = "count"
    /\ UNCHANGED <<event_data, wk, file_path_list, fi, li, full_data_rows_list, wi,
                   disk_new, stdout>>
    /\ UNCHANGED dbvars

\* Cell: check the number of rows in the csv file (opened, counted, closed)
CountRows ==
    /\ pc = "count"
    /\ open_files' = close(open(open_files, new_datafile, "r"), new_datafile)
    /\ stdout' = Append(stdout, [kind |-> "number of rows", n |-> Len(disk_new.lines)])
    /\ pc' = "connect"
    /\ UNCHANGED <<event_data, wk, file_path_list, fi, li, full_data_rows_list, wi,
                   disk_new>>
    /\ UNCHANGED dbvars

fsvars == <<event_data, wk, file_path_list, fi, full_data_rows_list, wi, disk_new>>

---------------------------------------------------------------------------
(* The statements of the notebook *)

Range(f) == {f[i] : i \in DOMAIN f}

\* `tables = ["artist_song_session", "song_playlist_session", "user_song"]`
tables == <<"artist_song_session", "song_playlist_session", "user_song">>

\* the CREATE TABLE IF NOT EXISTS statements: columns and PRIMARY KEY
CreateTableNoClustering(t) ==
    CASE t = "artist_song_session" ->
            [columns    |-> {"session_id", "item_in_session", "artist", "song", "length"},
             partition  |-> <<"session_id">>,
             clustering |-> <<"item_in_session">>]
      [] t = "song_playlist_session" ->
            [columns    |-> {"user_id", "session_id", "item_in_session", "artist", "song",
                             "first_name", "last_name"},
             partition  |-> <<"user_id", "session_id">>,
             clustering |-> <<>>]
      [] t = "user_song" ->
            [columns    |-> {"song", "user_id", "first_name", "last_name"},
             partition  |-> <<"song">>,
             clustering |-> <<"user_id">>]

CreateTableSongKey(t) ==
    CASE t = "artist_song_session" ->
            [columns    |-> {"session_id", "item_in_session", "artist", "song", "length"},
             partition  |-> <<"session_id">>,
             clustering |-> <<"item_in_session">>]
      [] t = "song_playlist_session" ->
            [columns    |-> {"user_id", "session_id", "item_in_session", "artist", "song",
                             "first_name", "last_name"},
             partition  |-> <<"user_id", "session_id">>,
             clustering |-> <<"item_in_session">>]
      [] t = "user_song" ->
            [columns    |-> {"song", "user_id", "first_name", "last_name"},
             partition  |-> <<"song">>,
             clustering |-> <<>>]

CreateTableArtistKey(t) ==
    CASE t = "artist_song_session" ->
            [columns    |-> {"session_id", "item_in_session", "artist", "song", "length"},
             partition  |-> <<"session_id">>,
             clustering |-> <<"item_in_session", "artist">>]
      [] t = "song_playlist_session" ->
            [columns    |-> {"user_id", "session_id", "item_in_session", "artist", "song",
                             "first_name", "last_name"},
             partition  |-> <<"user_id", "session_id">>,
             clustering |-> <<"item_in_session">>]
      [] t = "user_song" ->
            [columns    |-> {"song", "user_id", "first_name", "last_name"},
             partition  |-> <<"song">>,
             clustering |-> <<"user_id">>]

CreateTable(t) ==
    CASE t = "artist_song_session" ->
            [columns    |-> {"session_id", "item_in_session", "artist", "song", "length"},
             partition  |-> <<"session_id">>,
             clustering |-> <<"item_in_session">>]
      [] t = "song_playlist_session" ->
            [columns    |-> {"user_id", "session_id", "item_in_session", "artist", "song",
                             "first_name", "last_name"},
             partition  |-> <<"user_id", "session_id">>,
             clustering |-> <<"item_in_session">>]
      [] t = "user_song" ->
            [columns    |-> {"song", "user_id", "first_name", "last_name"},
             partition  |-> <<"song">>,
             clustering |-> <<"user_id">>]

\* the conversions of the parameter tuple of an INSERT raise ValueError
InsertRaises(t, line) ==
    CASE t = "artist_song_session" ->
            ~IsInt(At(line, 8)) \/ ~IsInt(At(line, 3)) \/ ~IsFloat(At(line, 5))
      [] t = "song_playlist_session" ->
            ~IsInt(At(line, 10)) \/ ~IsInt(At(line, 8)) \/ ~IsInt(At(line, 3))
      [] t = "user_song" -> ~IsInt(At(line, 10))

\* the INSERT statements: column list and parameter tuple, column by column
InsertSongAsArtist(t, line) ==
    CASE t = "artist_song_session" ->
            [session_id |-> int(At(line, 8)), item_in_session |-> int(At(line, 3)),
             artist |-> At(line, 9), song |-> At(line, 0), length |-> float(At(line, 5))]
      [] t = "song_playlist_session" ->
            [user_id |-> int(At(line, 10)), session_id |-> int(At(line, 8)),
             item_in_session |-> int(At(line, 3)), artist |-> At(line, 0),
             song |-> At(line, 9), first_name |-> At(line, 1), last_name |-> At(line, 4)]
      [] t = "user_song" ->
            [song |-> At(line, 9), user_id |-> int(At(line, 10)),
             first_name |-> At(line, 1), last_name |-> At(line, 4)]

InsertNamesSwapped(t, line) ==
    CASE t = "artist_song_session" ->
            [session_id |-> int(At(line, 8)), item_in_session |-> int(At(line, 3)),
             artist |-> At(line, 0), song |-> At(line, 9), length |-> float(At(line, 5))]
      [] t = "song_playlist_session" ->
            [user_id |-> int(At(line, 10)), session_id |-> int(At(line, 8)),
             item_in_session |-> int(At(line, 3)), artist |-> At(line, 0),
             song |-> At(line, 9), first_name |-> At(line, 1), last_name |-> At(line, 4)]
      [] t = "user_song" ->
            [song |-> At(line, 9), user_id |-> int(At(line, 10)),
             first_name |-> At(line, 4), last_name |-> At(line, 1)]

Insert(t, line) ==
    CASE t = "artist_song_session" ->
            [session_id |-> int(At(line, 8)), item_in_session |-> int(At(line, 3)),
             artist |-> At(line, 0), song |-> At(line, 9), length |-> float(At(line, 5))]
      [] t = "song_playlist_session" ->
            [user_id |-> int(At(line, 10)), session_id |-> int(At(line, 8)),
             item_in_session |-> int(At(line, 3)), artist |-> At(line, 0),
             song |-> At(line, 9), first_name |-> At(line, 1), last_name |-> At(line, 4)]
      [] t = "user_song" ->
            [song |-> At(line, 9), user_id |-> int(At(line, 10)),
             first_name |-> At(line, 1), last_name |-> At(line, 4)]

\* the SELECT statements of the cells 3.1, 3.2, 3.3
SelectByUser(q) ==
    CASE q = 1 -> [from   |-> "artist_song_session",
                   select |-> <<"artist", "song", "length">>,
                   where  |-> [session_id |-> 338, item_in_session |-> 4]]
      [] q = 2 -> [from   |-> "song_playlist_session",
                   select |-> <<"item_in_session", "artist", "song", "first_name",
                                "last_name">>,
                   where  |-> [user_id |-> 10]]
      [] q = 3 -> [from   |-> "user_song",
                   select |-> <<"first_name", "last_name">>,
                   where  |-> [song |-> "All Hands Against His Own"]]

Select(q) ==
    CASE q = 1 -> [from   |-> "artist_song_session",
                   select |-> <<"artist", "song", "length">>,
                   where  |-> [session_id |-> 338, item_in_session |-> 4]]
      [] q = 2 -> [from   |-> "song_playlist_session",
                   select |-> <<"item_in_session", "artist", "song", "first_name",
                                "last_name">>,
                   where  |-> [user_id |-> 10, session_id |-> 182]]
      [] q = 3 -> [from   |-> "user_song",
                   select |-> <<"first_name", "last_name">>,
                   where  |-> [song |-> "All Hands Against His Own"]]

\* data.field_names and the attributes data.add_row reads, per query cell
FieldNames(q) ==
    CASE q = 1 -> <<"Artist", "Song", "Length">>
      [] q = 2 -> <<"Artist", "Song", "Item in session", "First name", "Last name">>
      [] q = 3 -> <<"First name", "Last name">>

AddRow(q) ==
    CASE q = 1 -> <<"artist", "song", "length">>
      [] q = 2 -> <<"artist", "song", "item_in_session", "first_name", "last_name">>
      [] q = 3 -> <<"first_name", "last_name">>

---------------------------------------------------------------------------
(* What the database does with a statement *)

PrimaryKey(schema) == schema.partition \o schema.clustering

\* the values of a row in the columns cols
KeyOf(cols, r) == [i \in 1..Len(cols) |-> r[cols[i]]]

\* INSERT is an upsert: the row replaces the row with its primary key
UpsertIfNotExists(t, r) ==
    IF \E x \in db[t].rows :
           KeyOf(PrimaryKey(db[t].schema), x) = KeyOf(PrimaryKey(db[t].schema), r)
    THEN db
    ELSE [db EXCEPT ![t].rows = @ \cup {r}]

Upsert(t, r) ==
    [db EXCEPT ![t].rows =
        {x \in @ : KeyOf(PrimaryKey(db[t].schema), x) # KeyOf(PrimaryKey(db[t].schema), r)}
            \cup {r}]

\* DROP TABLE t: the table and its rows are gone
DropNothing(t) == db

Drop(t) == [x \in DOMAIN db \ {t} |-> db[x]]

\* a table can be used: the session has its keyspace and the table exists
Usable(t) == session.keyspace = "sparkify" /\ t \in DOMAIN db

\* a SELECT without ALLOW FILTERING is accepted when it restricts every
\* partition-key column and no column outside the primary key
Accepted(sel) ==
    /\ Usable(sel.from)
    /\ Range(sel.select) \subseteq db[sel.from].schema.columns
    /\ Range(db[sel.from].schema.partition) \subseteq DOMAIN sel.where
    /\ DOMAIN sel.where \subseteq Range(PrimaryKey(db[sel.from].schema))

\* order of the clustering key (ascending, column after column)
KeyLeq(a, b) ==
    \/ a = b
    \/ \E i \in 1..Len(a) : a[i] < b[i] /\ \A j \in 1..(i - 1) : a[j] = b[j]

RECURSIVE InClusteringOrder(_, _)
InClusteringOrder(S, ck) ==
    IF S = {} THEN <<>>
    ELSE LET m == CHOOSE r \in S : \A x \in S : KeyLeq(KeyOf(ck, r), KeyOf(ck, x))
         IN  <<m>> \o InClusteringOrder(S \ {m}, ck)

\* the rows a SELECT returns: those that match, in clustering order, each
\* with the selected columns
ResultSet(sel) ==
    LET match == {r \in db[sel.from].rows : \A c \in DOMAIN sel.where : r[c] = sel.where[c]}
        sorted == InClusteringOrder(match, db[sel.from].schema.clustering)
    IN  [i \in 1..Len(sorted) |-> [c \in Range(sel.select) |-> sorted[i][c]]]

\* a statement may fail for a reason outside the program (timeout, no host)
FaultChoices == IF faults < MaxFaults THEN BOOLEAN ELSE {FALSE}

Count(fault) == faults' = faults + (IF fault THEN 1 ELSE 0)

Executed(op, t, row, ok) == stmts' = Append(stmts, [op |-> op, table |-> t, row |-> row, ok |-> ok])

\* the cell that runs after cell p (k: the table or the query of the cell)
AfterDropFirst(p, k) ==
    CASE p = "connect"         -> [pc |-> "create_keyspace", tix |-> 1]
      [] p = "create_keyspace" -> [pc |-> "set_keyspace", tix |-> 1]
      [] p = "set_keyspace"    -> [pc |-> "create_table", tix |-> 1]
      [] p = "create_table"    -> [pc |-> "insert", tix |-> k]
      [] p = "insert"          -> IF k < Len(tables)
                                  THEN [pc |-> "create_table", tix |-> k + 1]
                                  ELSE [pc |-> "drop", tix |-> 1]
      [] p = "drop"            -> IF k < Len(tables)
                                  THEN [pc |-> "drop", tix |-> k + 1]
                                  ELSE [pc |-> "query", tix |-> 1]
      [] p = "query"           -> IF k < 3
                                  THEN [pc |-> "query", tix |-> k + 1]
                                  ELSE [pc |-> "shutdown", tix |-> 1]
      [] p = "shutdown"        -> [pc |-> "done", tix |-> 1]

After(p, k) ==
    CASE p = "connect"         -> [pc |-> "create_keyspace", tix |-> 1]
      [] p = "create_keyspace" -> [pc |-> "set_keyspace", tix |-> 1]
      [] p = "set_keyspace"    -> [pc |-> "create_table", tix |-> 1]
      [] p = "create_table"    -> [pc |-> "insert", tix |-> k]
      [] p = "insert"          -> IF k < Len(tables)
                                  THEN [pc |-> "create_table", tix |-> k + 1]
                                  ELSE [pc |-> "query", tix |-> 1]
      [] p = "query"           -> IF k < 3
                                  THEN [pc |-> "query", tix |-> k + 1]
                                  ELSE [pc |-> "drop", tix |-> 1]
      [] p = "drop"            -> IF k < Len(tables)
                                  THEN [pc |-> "drop", tix |-> k + 1]
                                  ELSE [pc |-> "shutdown", tix |-> 1]
      [] p = "shutdown"        -> [pc |-> "done", tix |-> 1]

Goto(p, k) == pc' = After(p, k).pc /\ tix' = After(p, k).tix

---------------------------------------------------------------------------
(* Cells: cluster, session, keyspace *)

\* `cluster = Cluster(); session = cluster.connect()`
Connect ==
    /\ pc = "connect"
    /\ \E fault \in FaultChoices :
         /\ Count(fault)
         /\ IF fault
            THEN /\ Abort("NoHostAvailable")
                 /\ UNCHANGED <<cluster, session, tix>>
            ELSE /\ cluster' = "up"
                 /\ session' = [state |-> "open", keyspace |-> ""]
                 /\ Goto("connect", 1)
                 /\ UNCHANGED <<open_files, stdout>>
    /\ UNCHANGED <<li, keyspaces, db, rows, stmts>>
    /\ UNCHANGED fsvars

\* try: session.execute("CREATE KEYSPACE IF NOT EXISTS sparkify ...") except: print(e)
CreateKeyspace ==
    /\ pc = "create_keyspace"
    /\ \E fault \in FaultChoices :
         /\ Count(fault)
         /\ Executed("CREATE KEYSPACE", "sparkify", <<>>, ~fault)
         /\ IF fault
            THEN /\ stdout' = Append(stdout, [kind |-> "error", text |-> "CREATE KEYSPACE"])
                 /\ UNCHANGED keyspaces
            ELSE /\ keyspaces' = keyspaces \cup {"sparkify"}
                 /\ UNCHANGED stdout
    /\ Goto("create_keyspace", 1)
    /\ UNCHANGED <<li, open_files, cluster, session, db, rows>>
    /\ UNCHANGED fsvars

\* try: session.set_keyspace('sparkify') except: print(e)
SetKeyspace ==
    /\ pc = "set_keyspace"
    /\ \E fault \in FaultChoices :
         /\ Count(fault)
         /\ IF fault \/ "sparkify" \notin keyspaces
            THEN /\ stdout' = Append(stdout, [kind |-> "error", text |-> "set_keyspace"])
                 /\ UNCHANGED session
            ELSE /\ session' = [session EXCEPT !.keyspace = "sparkify"]
                 /\ UNCHANGED stdout
    /\ Goto("set_keyspace", 1)
    /\ UNCHANGED <<li, open_files, cluster, keyspaces, db, rows, stmts>>
    /\ UNCHANGED fsvars

---------------------------------------------------------------------------
(* Cells: create a table, insert the data *)

\* try: session.execute("CREATE TABLE IF NOT EXISTS ...") except: print(e)
CreateTableCell ==
    /\ pc = "create_table"
    /\ LET t == tables[tix] IN
       \E fault \in FaultChoices :
         /\ Count(fault)
         /\ Executed("CREATE TABLE", t, <<>>, ~(fault \/ session.keyspace # "sparkify"))
         /\ IF fault \/ session.keyspace # "sparkify"
            THEN /\ stdout' = Append(stdout, [kind |-> "error", text |-> "CREATE TABLE"])
                 /\ UNCHANGED db
            ELSE /\ db' = IF t \in DOMAIN db
                          THEN db
                          ELSE [x \in DOMAIN db \cup {t} |->
                                   IF x = t THEN [schema |-> CreateTable(t), rows |-> {}]
                                   ELSE db[x]]
                 /\ UNCHANGED stdout
    /\ Goto("create_table", tix)
    /\ UNCHANGED <<li, open_files, cluster, session, keyspaces, rows>>
    /\ UNCHANGED fsvars

\* `with open(new_datafile, encoding = 'utf8') as f: csvreader = csv.reader(f);
\*  next(csvreader)`
InsertOpen ==
    /\ pc = "insert"
    /\ IF ~disk_new.exists
       THEN /\ Abort("FileNotFoundError")
            /\ UNCHANGED li
       ELSE IF Len(disk_new.lines) = 0
       THEN /\ Abort("StopIteration")
            /\ UNCHANGED li
       ELSE /\ open_files' = open(open_files, new_datafile, "r")
            /\ li' = next(1)
            /\ pc' = "insert_lines"
            /\ UNCHANGED stdout
    /\ UNCHANGED dbvars
    /\ UNCHANGED fsvars

\* one iteration of `for line in csvreader`: one session.execute(INSERT ...)
InsertLine ==
    /\ pc = "insert_lines"
    /\ li <= Len(disk_new.lines)
    /\ LET t    == tables[tix]
           line == CsvRead(disk_new.lines[li]) IN
       IF InsertRaises(t, line)
       THEN /\ Abort("ValueError")
            /\ UNCHANGED <<li, db, stmts, faults>>
       ELSE \E fault \in FaultChoices :
              /\ Count(fault)
              /\ Executed("INSERT", t, Insert(t, line), ~fault /\ Usable(t))
              /\ IF fault \/ ~Usable(t)
                 THEN /\ Abort("INSERT")
                      /\ UNCHANGED <<li, db>>
                 ELSE /\ db' = Upsert(t, Insert(t, line))
                      /\ li' = next(li)
                      /\ UNCHANGED <<pc, open_files, stdout>>
    /\ UNCHANGED <<cluster, session, keyspaces, tix, rows>>
    /\ UNCHANGED fsvars

\* the end of the `with` block
InsertClose ==
    /\ pc = "insert_lines"
    /\ li > Len(disk_new.lines)
    /\ open_files' = close(open_files, new_datafile)
    /\ Goto("insert", tix)
    /\ UNCHANGED <<li, cluster, session, keyspaces, db, rows, stmts, stdout, faults>>
    /\ UNCHANGED fsvars

---------------------------------------------------------------------------
(* Cells 3.1, 3.2, 3.3: SELECT, then the rows in a PrettyTable *)

\* `for row in rows: data.add_row([row.<attribute>, ...])`
HasAttributes(q, r) == Range(AddRow(q)) \subseteq DOMAIN r

AddRows(q, rs) == [i \in 1..Len(rs) |-> KeyOf(AddRow(q), rs[i])]

\* `rows` after `for row in rows` ran to its end: session.execute returns a
\* ResultSet, an iterator over the rows of the result, which gives each row
\* once; a second loop over the same object finds no row
IteratedList(rs) == rs

Iterated(rs) == [rs EXCEPT !.value = <<>>]

QueryCell ==
    /\ pc = "query"
    /\ LET q   == tix
           sel == Select(q) IN
       \E fault \in FaultChoices :
         LET ok    == ~fault /\ Accepted(sel)
             bound == IF ok THEN [bound |-> TRUE, value |-> ResultSet(sel)] ELSE rows
             err   == IF ok THEN <<>> ELSE <<[kind |-> "error", text |-> "SELECT"]>>
         IN
         /\ Count(fault)
         /\ Executed("SELECT", sel.from, <<>>, ok)
         /\ IF ~bound.bound
            THEN /\ pc' = "aborted"
                 /\ rows' = bound
                 /\ stdout' = stdout \o err \o
                        <<[kind |-> "traceback", text |-> "NameError: rows"]>>
                 /\ UNCHANGED tix
            ELSE IF \E i \in DOMAIN bound.value : ~HasAttributes(q, bound.value[i])
            THEN /\ pc' = "aborted"
                 /\ stdout' = stdout \o err \o
                        <<[kind |-> "traceback", text |-> "AttributeError"]>>
                 /\ rows' = bound
                 /\ UNCHANGED tix
            ELSE /\ stdout' = stdout \o err \o
                        <<[kind |-> "table", query |-> q, field_names |-> FieldNames(q),
                           rows |-> AddRows(q, bound.value)]>>
                 /\ rows' = Iterated(bound)
                 /\ Goto("query", q)
    /\ UNCHANGED <<li, open_files, cluster, session, keyspaces, db>>
    /\ UNCHANGED fsvars

---------------------------------------------------------------------------
(* Cells 4 and 5: drop the tables, shut down *)

\* one iteration of `for table in tables`: try: execute("drop table " + table);
\* print("dropped table ...") except: print(e)
DropTable ==
    /\ pc = "drop"
    /\ LET t == tables[tix] IN
       \E fault \in FaultChoices :
         /\ Count(fault)
         /\ Executed("DROP TABLE", t, <<>>, ~fault /\ Usable(t))
         /\ IF fault \/ ~Usable(t)
            THEN /\ stdout' = Append(stdout, [kind |-> "error", text |-> "DROP TABLE"])
                 /\ UNCHANGED db
            ELSE /\ db' = Drop(t)
                 /\ stdout' = Append(stdout, [kind |-> "dropped table", text |-> t])
    /\ Goto("drop", tix)
    /\ UNCHANGED <<li, open_files, cluster, session, keyspaces, rows>>
    /\ UNCHANGED fsvars

\* `session.shutdown(); cluster.shutdown()`
Shutdown ==
    /\ pc = "shutdown"
    /\ session' = [session EXCEPT !.state = "shutdown"]
    /\ cluster' = "shutdown"
    /\ Goto("shutdown", 1)
    /\ Executed("SHUTDOWN", "", <<>>, TRUE)
    /\ UNCHANGED <<li, open_files, keyspaces, db, rows, stdout, faults>>
    /\ UNCHANGED fsvars

---------------------------------------------------------------------------

Next ==
    \/ WalkStep \/ WalkEnd \/ ReadOpen \/ ReadLine \/ ReadClose
    \/ WriteOpen \/ WriteRow \/ WriteClose \/ CountRows
    \/ Connect \/ CreateKeyspace \/ SetKeyspace
    \/ CreateTableCell \/ InsertOpen \/ InsertLine \/ InsertClose
    \/ QueryCell \/ DropTable \/ Shutdown

\* the whole notebook
Spec == Init /\ [][Next]_vars

\* the cells that process the csv files, on every tree
Extract ==
    \/ WalkStep \/ WalkEnd \/ ReadOpen \/ ReadLine \/ ReadClose
    \/ WriteOpen \/ WriteRow \/ WriteClose \/ CountRows

SpecExtract == InitTree /\ [][Extract]_vars

---------------------------------------------------------------------------
(* What the properties are stated over *)

\* event_datafile_new.csv is written and closed
ExtractDone == disk_new.exists /\ pc # "write"

\* the data rows (all but the first line) of the files of a path list, in order
RECURSIVE DataRowsOf(_)
DataRowsOf(paths) ==
    IF paths = <<>> THEN <<>>
    ELSE LET L == Lines(Head(paths))
         IN  [i \in 1..(Len(L) - 1) |-> CsvRead(L[i + 1])] \o DataRowsOf(Tail(paths))

\* the data rows of every file of the tree
RECURSIVE DataRowsOfTree(_)
DataRowsOfTree(d) ==
    IF d > Len(event_data) THEN <<>>
    ELSE DataRowsOf([i \in 1..Len(event_data[d].files) |->
                        [kind |-> "file", dir |-> d, idx |-> i]])
            \o DataRowsOfTree(d + 1)

HasArtist(row) == row[1] # ""

\* the records of event_datafile_new.csv after the header, as csv.reader gives them
NewFileRows == [i \in 1..(Len(disk_new.lines) - 1) |-> CsvRead(disk_new.lines[i + 1])]

\* the positions of the statements of one kind on one table
Positions(op, t) == {i \in DOMAIN stmts : stmts[i].op = op /\ stmts[i].table = t}

Ops(op) == {i \in DOMAIN stmts : stmts[i].op = op}

\* the rows of the INSERTs on table t, in the order of execution
RECURSIVE InsertedRows(_, _)
InsertedRows(t, n) ==
    IF n = 0 THEN <<>>
    ELSE IF stmts[n].op = "INSERT" /\ stmts[n].table = t /\ stmts[n].ok
         THEN Append(InsertedRows(t, n - 1), stmts[n].row)
         ELSE InsertedRows(t, n - 1)

\* the insert loop of the k-th table has run to its end
Loaded(k) ==
    \E i \in DOMAIN stmts :
        \/ stmts[i].op \in {"SELECT", "DROP TABLE", "SHUTDOWN"}
        \/ stmts[i].op = "CREATE TABLE" /\ \E j \in (k + 1)..Len(tables) : stmts[i].table = tables[j]

\* the SELECT of query cell q succeeded
SelectOk(q) == \E i \in Positions("SELECT", Select(q).from) : stmts[i].ok

\* the PrettyTables printed by query cell q
Shown(q) == {stdout[i].rows : i \in {j \in DOMAIN stdout :
                                        stdout[j].kind = "table" /\ stdout[j].query = q}}

---------------------------------------------------------------------------
C1_Columns == <<0, 2, 3, 4, 5, 6, 7, 8, 12, 13, 16>>

(* C1: event_datafile_new.csv is the header row followed by the projection *)
(* onto the input columns 0,2,3,4,5,6,7,8,12,13,16 of exactly the data     *)
(* rows with a non-empty artist of the files of file_path_list, in list    *)
(* order and file order; it has 1 + (total rows - empty-artist rows)       *)
(* records.                                                                *)
C1_FilterAndProject ==
    ExtractDone =>
        LET all  == DataRowsOf(file_path_list.value)
            kept == SelectSeq(all, HasArtist)
        IN  /\ full_data_rows_list = all
            /\ Len(disk_new.lines) =
                   1 + (Len(all) - Cardinality({i \in DOMAIN all : all[i][1] = ""}))
            /\ CsvRead(disk_new.lines[1]) =
                   <<"artist", "firstName", "gender", "itemInSession", "lastName",
                     "length", "level", "location", "sessionId", "song", "userId">>
            /\ Len(NewFileRows) = Len(kept)
            /\ \A i \in DOMAIN kept :
                   NewFileRows[i] = [k \in 1..Len(C1_Columns) |-> kept[i][C1_Columns[k] + 1]]

\* two files were read; the row of one was kept and the row of the other skipped
C1_Witness ==
    /\ ExtractDone
    /\ Len(file_path_list.value) = 2
    /\ Len(full_data_rows_list) = 2
    /\ Len(disk_new.lines) = 2

(* C2: every file of the tree rooted at event_data contributes its data    *)
(* rows to full_data_rows_list, also the files directly in event_data when *)
(* event_data has a sub-directory.                                         *)
C2_AllFilesRead ==
    ExtractDone =>
        \A e \in Events :
            Cardinality({i \in DOMAIN full_data_rows_list : full_data_rows_list[i] = e})
                = Cardinality({i \in DOMAIN DataRowsOfTree(1) : DataRowsOfTree(1)[i] = e})

(* C3: the phases run in sequence and once: the new file is written and    *)
(* closed before the first statement; per table CREATE TABLE, then its     *)
(* INSERTs, then its SELECT; every SELECT before every DROP TABLE; the     *)
(* shutdown last; no statement of a phase after a later phase began.       *)
C3_Sequential ==
    /\ stmts # <<>> \/ cluster # "none" =>
          /\ ExtractDone
          /\ open_files \subseteq {[path |-> new_datafile, mode |-> "r"]}
          /\ wi > Len(full_data_rows_list)
          /\ Len(disk_new.lines) = 1 + Len(SelectSeq(full_data_rows_list, HasArtist))
    /\ pc \in {"walk", "read", "read_lines", "write", "count", "connect"} => stmts = <<>>
    /\ \A k \in DOMAIN tables :
          LET t == tables[k] IN
          /\ Cardinality(Positions("CREATE TABLE", t)) <= 1
          /\ Cardinality(Positions("SELECT", t)) <= 1
          /\ Cardinality(Positions("DROP TABLE", t)) <= 1
          \* an INSERT follows the CREATE TABLE or an INSERT of its table
          /\ \A i \in Positions("INSERT", t) :
                /\ i > 1
                /\ stmts[i - 1].table = t
                /\ stmts[i - 1].op \in {"CREATE TABLE", "INSERT"}
                /\ \E c \in Positions("CREATE TABLE", t) : c < i
                /\ \A j \in Positions("SELECT", t) : i < j
          \* the tables are created and loaded one after the other
          /\ \A j \in DOMAIN tables :
                k < j => \A a \in Positions("CREATE TABLE", t) \cup Positions("INSERT", t),
                            c \in Positions("CREATE TABLE", tables[j]) : a < c
    /\ \A i \in Ops("CREATE TABLE") \cup Ops("INSERT") : \A j \in Ops("SELECT") : i < j
    /\ \A i \in Ops("SELECT") : \A j \in Ops("DROP TABLE") : i < j
    /\ \A i \in Ops("SHUTDOWN") : i = Len(stmts) /\ pc = "done"
    /\ session.state = "shutdown" => Ops("SHUTDOWN") # {} /\ cluster = "shutdown"

\* a complete run: every table loaded, queried and dropped, the session shut down
C3_Witness ==
    /\ pc = "done"
    /\ \A k \in DOMAIN tables :
          /\ Positions("INSERT", tables[k]) # {}
          /\ Positions("SELECT", tables[k]) # {}
          /\ Positions("DROP TABLE", tables[k]) # {}

(* C4: each insert loop skips the header record and executes one INSERT    *)
(* per remaining record of event_datafile_new.csv, in file order: while a  *)
(* loop runs the INSERTs done are those of the records read so far, and    *)
(* when it has ended there are as many INSERTs as data rows.               *)
C4_OneInsertPerRecord ==
    \A k \in DOMAIN tables :
        LET t    == tables[k]
            done == InsertedRows(t, Len(stmts))
        IN  /\ Len(done) <= Len(NewFileRows)
            /\ \A i \in DOMAIN done : done[i] = Insert(t, NewFileRows[i])
            /\ Cardinality({i \in Positions("INSERT", t) : ~stmts[i].ok}) <= 1
            /\ (pc = "insert_lines" /\ tix = k) => Len(done) = li - 2
            /\ Loaded(k) =>
                  /\ Len(done) = Len(disk_new.lines) - 1
                  /\ Cardinality(Positions("INSERT", t)) = Len(disk_new.lines) - 1

\* the three loops have ended on a file of two data rows
C4_Witness ==
    /\ Loaded(3)
    /\ Len(disk_new.lines) = 3
    /\ Len(InsertedRows(tables[3], Len(stmts))) = 2

C5_Matches ==
    {i \in DOMAIN NewFileRows :
        int(NewFileRows[i][9]) = 338 /\ int(NewFileRows[i][4]) = 4}

(* C5: after the load the lookup of question 1 (session 338, item 4)       *)
(* returns artist, song title and length of an event of the new file with  *)
(* that session id and item, in one row, and no row when there is none.    *)
C5_Question1 ==
    SelectOk(1) =>
        /\ Shown(1) # {}
        /\ \A shown \in Shown(1) :
              IF C5_Matches = {} THEN shown = <<>>
              ELSE /\ Len(shown) = 1
                   /\ \E i \in C5_Matches :
                         shown[1] = <<NewFileRows[i][1], NewFileRows[i][10],
                                      float(NewFileRows[i][6])>>

\* the file holds the event of the question and another event
C5_Witness ==
    /\ SelectOk(1)
    /\ Cardinality(C5_Matches) = 1
    /\ Len(NewFileRows) = 2
    /\ \E shown \in Shown(1) : Len(shown) = 1

C6_Matches ==
    {i \in DOMAIN NewFileRows :
        int(NewFileRows[i][11]) = 10 /\ int(NewFileRows[i][9]) = 182}

(* C6: the lookup of question 2 (user 10, session 182) returns the events  *)
(* of the new file with that user id and session id, one row per distinct  *)
(* itemInSession, in ascending order of item_in_session, whatever the      *)
(* order of insertion.                                                     *)
C6_Question2 ==
    SelectOk(2) =>
        /\ Shown(2) # {}
        /\ \A shown \in Shown(2) :
              /\ \A a, b \in DOMAIN shown : a < b => shown[a][3] < shown[b][3]
              /\ {shown[a][3] : a \in DOMAIN shown} =
                     {int(NewFileRows[i][4]) : i \in C6_Matches}
              /\ \A a \in DOMAIN shown :
                    \E i \in C6_Matches :
                        shown[a] = <<NewFileRows[i][1], NewFileRows[i][10],
                                     int(NewFileRows[i][4]), NewFileRows[i][2],
                                     NewFileRows[i][5]>>

\* item 1 was inserted before item 0, and both are returned
C6_Witness ==
    /\ SelectOk(2)
    /\ Len(NewFileRows) = 2
    /\ C6_Matches = {1, 2}
    /\ int(NewFileRows[1][4]) > int(NewFileRows[2][4])
    /\ \E shown \in Shown(2) : Len(shown) = 2

(* C7: in song_playlist_session any two rows with the same user_id are in  *)
(* the same partition, also when their session_id differs.                 *)
C7_SameUserSamePartition ==
    "song_playlist_session" \in DOMAIN db =>
        \A r1, r2 \in db["song_playlist_session"].rows :
            r1.user_id = r2.user_id =>
                KeyOf(db["song_playlist_session"].schema.partition, r1)
                    = KeyOf(db["song_playlist_session"].schema.partition, r2)

C8_Matches ==
    {i \in DOMAIN NewFileRows : NewFileRows[i][10] = "All Hands Against His Own"}

C8_Listeners == {int(NewFileRows[i][11]) : i \in C8_Matches}

(* C8: the lookup of question 3 returns one row for each distinct userId   *)
(* that occurs with the song in the new file, none missing and none added, *)
(* each row with the first and last name of that user.                     *)
C8_Question3 ==
    SelectOk(3) =>
        /\ Shown(3) # {}
        /\ \A shown \in Shown(3) :
              /\ Len(shown) = Cardinality(C8_Listeners)
              /\ \A a \in DOMAIN shown :
                    LET u == CHOOSE v \in C8_Listeners :
                                 Cardinality({w \in C8_Listeners : w < v}) = a - 1
                    IN  \E i \in C8_Matches :
                            /\ int(NewFileRows[i][11]) = u
                            /\ shown[a] = <<NewFileRows[i][2], NewFileRows[i][5]>>

\* two users listened to the song
C8_Witness ==
    /\ SelectOk(3)
    /\ Cardinality(C8_Listeners) = 2
    /\ \E shown \in Shown(3) : Len(shown) = 2

C9_Key(t) ==
    CASE t = "artist_song_session"   -> <<"session_id", "item_in_session">>
      [] t = "song_playlist_session" -> <<"user_id", "session_id", "item_in_session">>
      [] t = "user_song"             -> <<"song", "user_id">>

(* C9: at every moment each table holds at most one row per primary key:   *)
(* (session_id, item_in_session), (user_id, session_id, item_in_session),  *)
(* (song, user_id); so question 1 returns at most one row and question 3   *)
(* no more rows than there are listeners.                                  *)
C9_UniquePerKey ==
    /\ \A t \in DOMAIN db :
          \A r1, r2 \in db[t].rows :
              KeyOf(C9_Key(t), r1) = KeyOf(C9_Key(t), r2) => r1 = r2
    /\ SelectOk(1) => \A shown \in Shown(1) : Len(shown) <= 1
    /\ SelectOk(3) => \A shown \in Shown(3) : Len(shown) <= Cardinality(C8_Listeners)

\* two events of the file have the key of one row of artist_song_session
C9_Witness ==
    /\ pc = "query"
    /\ Cardinality(C5_Matches) = 2
    /\ "artist_song_session" \in DOMAIN db
    /\ Cardinality(db["artist_song_session"].rows) = 1

C10_PartitionKey(q) ==
    CASE q = 1 -> {"session_id"}
      [] q = 2 -> {"user_id", "session_id"}
      [] q = 3 -> {"song"}

(* C10: each SELECT restricts by equality every partition-key column of    *)
(* its table (session_id; user_id and session_id; song) and no column      *)
(* outside the primary key, selects plain columns of that one table, and   *)
(* the rows it reads are of one partition.                                 *)
C10_KeyedForItsQuery ==
    \A q \in 1..3 :
        LET sel == Select(q)
            t   == sel.from
        IN  /\ t = tables[q]
            /\ t \in DOMAIN db =>
                  /\ Range(db[t].schema.partition) = C10_PartitionKey(q)
                  /\ C10_PartitionKey(q) \subseteq DOMAIN sel.where
                  /\ DOMAIN sel.where \subseteq Range(PrimaryKey(db[t].schema))
                  /\ Range(sel.select) \subseteq db[t].schema.columns
                  /\ \A r1, r2 \in {r \in db[t].rows :
                                       \A c \in DOMAIN sel.where : r[c] = sel.where[c]} :
                         KeyOf(db[t].schema.partition, r1) = KeyOf(db[t].schema.partition, r2)
                  /\ (pc = "query" /\ tix > q /\ faults = 0) => SelectOk(q)

\* the three SELECTs ran on loaded tables and returned rows
C10_Witness ==
    /\ SelectOk(1) /\ SelectOk(2) /\ SelectOk(3)
    /\ \E shown \in Shown(2) : Len(shown) = 1
    /\ \E shown \in Shown(1) : Len(shown) = 1

\* the PrettyTables printed by query cell q, with their field names
Tables(q) == {stdout[i] : i \in {j \in DOMAIN stdout :
                                    stdout[j].kind = "table" /\ stdout[j].query = q}}

(* C11: the output of question 3 has the three columns User Id, First      *)
(* name, Last name, and lists for every listener of the song the user id   *)
(* with the first and the last name.                                       *)
C11_ShowsUserId ==
    SelectOk(3) =>
        \A shown \in Tables(3) :
            /\ shown.field_names = <<"User Id", "First name", "Last name">>
            /\ \A u \in C8_Listeners :
                  \E a \in DOMAIN shown.rows :
                      /\ Len(shown.rows[a]) = 3
                      /\ shown.rows[a][1] = u

\* the cells before the connect cell, and the cells from connect to shutdown
C12_BeforeConnect == {"walk", "read", "read_lines", "write", "count", "connect"}

C12_Connected == {"create_keyspace", "set_keyspace", "create_table", "insert",
                  "insert_lines", "query", "drop", "shutdown"}

(* C12: at most one file handle is open at any time: an input file is open *)
(* only while its lines are read, event_datafile_new.csv is open for       *)
(* writing only while it is written (all input files closed) and for       *)
(* reading only inside a load loop; one session is open from the connect   *)
(* to the shutdown, none before and none after.                            *)
C12_OneHandleOneSession ==
    /\ Cardinality(open_files) <= 1
    /\ pc = "read_lines" =>
          open_files = {[path |-> file_path_list.value[fi], mode |-> "r"]}
    /\ pc = "write" => open_files = {[path |-> new_datafile, mode |-> "w"]}
    /\ pc = "insert_lines" => open_files = {[path |-> new_datafile, mode |-> "r"]}
    /\ pc \notin {"read_lines", "write", "insert_lines"} => open_files = {}
    /\ pc \in C12_BeforeConnect => session.state = "none" /\ cluster = "none"
    /\ pc \in C12_Connected => session.state = "open" /\ cluster = "up"
    /\ pc = "done" => session.state = "shutdown" /\ cluster = "shutdown"
    /\ pc = "aborted" =>
          \/ session.state = "none" /\ cluster = "none"
          \/ session.state = "open" /\ cluster = "up"

\* the second load loop reads the new file, made from two input files
C12_Witness ==
    /\ pc = "insert_lines"
    /\ tix = 2
    /\ Len(file_path_list.value) = 2
    /\ open_files = {[path |-> new_datafile, mode |-> "r"]}
    /\ session.state = "open"

\* the attribute of the event log that a table column holds, and its column
\* in the files of event_data
C13_Attribute(c) ==
    CASE c = "session_id"      -> [name |-> "sessionId", column |-> 12]
      [] c = "item_in_session" -> [name |-> "itemInSession", column |-> 4]
      [] c = "artist"          -> [name |-> "artist", column |-> 0]
      [] c = "song"            -> [name |-> "song", column |-> 13]
      [] c = "length"          -> [name |-> "length", column |-> 6]
      [] c = "user_id"         -> [name |-> "userId", column |-> 16]
      [] c = "first_name"      -> [name |-> "firstName", column |-> 2]
      [] c = "last_name"       -> [name |-> "lastName", column |-> 5]

\* the value of the text s in column c (int, float or text)
C13_Value(c, s) ==
    IF c \in {"session_id", "item_in_session", "user_id"} THEN int(s)
    ELSE IF c = "length" THEN float(s)
    ELSE s

\* the field of a record of the new file that the header names `name`
C13_Field(record, name) ==
    LET header == CsvRead(disk_new.lines[1])
    IN  record[CHOOSE k \in DOMAIN header : header[k] = name]

(* C13: in every INSERT of the three load loops the value of each column   *)
(* is the field of the record of event_datafile_new.csv that the header    *)
(* names after the column's attribute, which is the matching column of the *)
(* event row the record was made from (sessionId 12, itemInSession 4,      *)
(* artist 0, song 13, length 6, userId 16, firstName 2, lastName 5).       *)
C13_ColumnMapping ==
    \A n \in Ops("INSERT") :
        LET t      == stmts[n].table
            i      == Cardinality({j \in Positions("INSERT", t) : j <= n})
            record == NewFileRows[i]
            event  == SelectSeq(full_data_rows_list, HasArtist)[i]
        IN  /\ DOMAIN stmts[n].row = CreateTable(t).columns
            /\ \A c \in DOMAIN stmts[n].row :
                  /\ stmts[n].row[c] = C13_Value(c, C13_Field(record, C13_Attribute(c).name))
                  /\ stmts[n].row[c] = C13_Value(c, At(event, C13_Attribute(c).column))
                  /\ InputHeader[C13_Attribute(c).column + 1] = C13_Attribute(c).name

\* each of the three loops has executed the INSERTs of two different records
C13_Witness ==
    /\ \A k \in DOMAIN tables : Cardinality(Positions("INSERT", tables[k])) = 2
    /\ Len(full_data_rows_list) = 2
    /\ NewFileRows[1] # NewFileRows[2]

\* the statements that stand in a try block whose handler prints the error
C14_Caught == {"CREATE KEYSPACE", "CREATE TABLE", "SELECT", "DROP TABLE"}

\* the statements that raised
C14_Failed == {i \in DOMAIN stmts : ~stmts[i].ok}

\* the errors and tracebacks printed so far
C14_Errors == {i \in DOMAIN stdout : stdout[i].kind \in {"error", "traceback"}}

(* C14: a statement that raised is never executed again and nothing is     *)
(* done to make up for it; a failure of CREATE KEYSPACE, set_keyspace,     *)
(* CREATE TABLE, SELECT or DROP TABLE is printed and the run goes on with  *)
(* the next step, so the INSERTs of a table are attempted also when its    *)
(* CREATE TABLE failed.                                                    *)
C14_NoRecoveryRunContinues ==
    /\ \A i \in C14_Failed :
          /\ \A j \in DOMAIN stmts :
                j > i => ~(stmts[j].op = stmts[i].op /\ stmts[j].table = stmts[i].table)
          /\ Cardinality(C14_Errors) >= Cardinality({j \in C14_Failed : j <= i})
          /\ stmts[i].op \in C14_Caught => ~(i = Len(stmts) /\ pc = "aborted")
          /\ (stmts[i].op = "CREATE TABLE" /\ i < Len(stmts) /\ Len(disk_new.lines) > 1) =>
                stmts[i + 1].op = "INSERT" /\ stmts[i + 1].table = stmts[i].table
    /\ \A i \in DOMAIN stdout :
          (stdout[i].kind = "error" /\ stdout[i].text = "set_keyspace") =>
              \/ pc = "create_table" /\ tix = 1
              \/ Positions("CREATE TABLE", tables[1]) # {}

\* the tables of the DROP TABLE statements, in the order of execution
RECURSIVE C15_Dropped(_)
C15_Dropped(n) ==
    IF n = 0 THEN <<>>
    ELSE IF stmts[n].op = "DROP TABLE"
         THEN Append(C15_Dropped(n - 1), stmts[n].table)
         ELSE C15_Dropped(n - 1)

\* the names printed by `print("dropped table %s" % table)`, in order
RECURSIVE C15_Printed(_)
C15_Printed(n) ==
    IF n = 0 THEN <<>>
    ELSE IF stdout[n].kind = "dropped table"
         THEN Append(C15_Printed(n - 1), stdout[n].text)
         ELSE C15_Printed(n - 1)

\* the DROP TABLE statements that succeeded, in order
RECURSIVE C15_Succeeded(_)
C15_Succeeded(n) ==
    IF n = 0 THEN <<>>
    ELSE IF stmts[n].op = "DROP TABLE" /\ stmts[n].ok
         THEN Append(C15_Succeeded(n - 1), stmts[n].table)
         ELSE C15_Succeeded(n - 1)

C15_Order == <<"artist_song_session", "song_playlist_session", "user_song">>

(* C15: the drop cell attempts DROP TABLE on artist_song_session, then     *)
(* song_playlist_session, then user_song, once each, also after a drop     *)
(* that failed; 'dropped table <name>' is printed for exactly the drops    *)
(* that succeeded; after three successful drops none of the tables exists. *)
C15_DropStep ==
    LET dropped == C15_Dropped(Len(stmts)) IN
    /\ Len(dropped) <= 3
    /\ dropped = SubSeq(C15_Order, 1, Len(dropped))
    /\ pc = "drop" => Len(dropped) = tix - 1
    /\ pc \in {"shutdown", "done"} => dropped = C15_Order
    /\ pc = "aborted" => dropped = <<>>
    /\ C15_Printed(Len(stdout)) = C15_Succeeded(Len(stmts))
    /\ C15_Succeeded(Len(stmts)) = C15_Order =>
          \A t \in Range(C15_Order) : t \notin DOMAIN db

\* the first drop failed, the two others were attempted and succeeded
C15_Witness ==
    /\ pc = "done"
    /\ C15_Dropped(Len(stmts)) = C15_Order
    /\ C15_Succeeded(Len(stmts)) = <<"song_playlist_session", "user_song">>
    /\ "artist_song_session" \in DOMAIN db

\* the SELECT of query cell q raised
C16_SelectFailed(q) == \E i \in Positions("SELECT", Select(q).from) : ~stmts[i].ok

C17_LoopRaised ==
    /\ stdout # <<>>
    /\ stdout[Len(stdout)].kind = "traceback"
    /\ stdout[Len(stdout)].text \in {"ValueError", "INSERT"}

(* C17: a load loop is not atomic and catches nothing: when the INSERT or  *)
(* the int/float conversion of the k-th data row raises, the run stops at  *)
(* that row; the table keeps what the rows 1..k-1 put into it, no row      *)
(* after k is inserted, and the tables of the later cells get no data.     *)
C17_LoadStopsAtFailure ==
    /\ \A i \in Ops("INSERT") : ~stmts[i].ok => i = Len(stmts) /\ pc = "aborted"
    /\ C17_LoopRaised =>
          LET t    == tables[tix]
              k    == li - 1
              done == InsertedRows(t, Len(stmts))
          IN  /\ pc = "aborted"
              /\ k \in DOMAIN NewFileRows
              /\ done = [i \in 1..(k - 1) |-> Insert(t, NewFileRows[i])]
              /\ k > 1 =>
                    /\ t \in DOMAIN db
                    /\ db[t].rows \subseteq Range(done)
                    /\ \A i \in DOMAIN done :
                          \E r \in db[t].rows :
                              KeyOf(PrimaryKey(db[t].schema), r)
                                  = KeyOf(PrimaryKey(db[t].schema), done[i])
                    /\ done[k - 1] \in db[t].rows
              /\ \A j \in DOMAIN tables :
                    j > tix => /\ Positions("INSERT", tables[j]) = {}
                               /\ tables[j] \notin DOMAIN db

\* the second row of the file could not be converted: the first row is in the
\* table of the first loop, the other tables do not exist
C17_Witness ==
    /\ C17_LoopRaised
    /\ stdout[Len(stdout)].text = "ValueError"
    /\ tix = 1
    /\ li = 3
    /\ Cardinality(db[tables[1]].rows) = 1
    /\ DOMAIN db = {tables[1]}

\* the positions of the rows inserted into t that no later row of the same
\* primary key follows
C18_Last(t, done) ==
    {i \in DOMAIN done :
        \A j \in DOMAIN done :
            KeyOf(C9_Key(t), done[j]) = KeyOf(C9_Key(t), done[i]) => j <= i}

(* C18: when several data rows of event_datafile_new.csv have the same     *)
(* primary key in a table, the table holds for that key the columns of the *)
(* row that is last in file order: in user_song the names of the user's    *)
(* last play of the song, in artist_song_session artist, song and length   *)
(* of the last row of that session and item.                               *)
C18_LastWriteWins ==
    \A k \in DOMAIN tables :
        LET t    == tables[k]
            done == InsertedRows(t, Len(stmts))
        IN  t \in DOMAIN db =>
                /\ db[t].rows = {done[i] : i \in C18_Last(t, done)}
                /\ Loaded(k) =>
                      db[t].rows = {Insert(t, NewFileRows[i]) :
                                       i \in C18_Last(t, [j \in DOMAIN NewFileRows |->
                                                             Insert(t, NewFileRows[j])])}

\* user 10 played the song twice, the second time under another last name:
\* user_song holds one row, with the last name of the second play
C18_Witness ==
    /\ Loaded(3)
    /\ "user_song" \in DOMAIN db
    /\ Len(NewFileRows) = 2
    /\ NewFileRows[1][10] = NewFileRows[2][10]
    /\ NewFileRows[1][11] = NewFileRows[2][11]
    /\ NewFileRows[1][5] # NewFileRows[2][5]
    /\ \A r \in db["user_song"].rows : r.last_name = NewFileRows[2][5]
    /\ Cardinality(db["user_song"].rows) = 1

====
